---- MODULE Spec2Model ----
(***************************************************************************)
(* Model of the smart-checkout-service checkout handler                    *)
(* (src/src/checkout.ts), its order repository (src/src/repository.ts)     *)
(* and its pricing function (pricing.ts).                                  *)
(*                                                                         *)
(* Every request is one invocation of `handler`.  The handler is           *)
(* asynchronous: between two awaits its code runs without interruption,    *)
(* so there is one action per await point, and each action is the store    *)
(* or payment call that resolves together with the synchronous code that   *)
(* follows it up to the next await.                                        *)
(***************************************************************************)
EXTENDS Integers, Sequences, FiniteSets, TLC

(***************************************************************************)
(* Bounds                                                                  *)
(***************************************************************************)
NumReqs == 2        \* checkout requests (first attempts and retries) in one run
MaxFaults == 2      \* store / payment calls that fail or read stale, per run
MaxItems == 2       \* items of a cart that is priced on its own

Reqs == 1..NumReqs

(***************************************************************************)
(* JSON values of a request body.  A value carries its JavaScript type so  *)
(* that the typeof / Number.isInteger / Array.isArray tests of             *)
(* validateRequest can be evaluated on it.                                 *)
(***************************************************************************)
Undef == [t |-> "undefined", s |-> "", n |-> 0]
JNull == [t |-> "null", s |-> "", n |-> 0]
Str(x) == [t |-> "string", s |-> x, n |-> 0]
Num(k) == [t |-> "integer", s |-> "", n |-> k]
\* a number that is not an integer; n is its integer part
Frac(k) == [t |-> "fraction", s |-> "", n |-> k]
Arr(xs) == [t |-> "array", v |-> xs]
JItem(p, nm, u, q) == [t |-> "object", productId |-> p, name |-> nm, unitPrice |-> u, quantity |-> q]
Body(c, cu, its) == [t |-> "object", cartId |-> c, customerId |-> cu, items |-> its]
\* an item and a body in which the caller also sends figures of its own
JItemWithTotal(p, nm, u, q, lt) ==
    [t |-> "object", productId |-> p, name |-> nm, unitPrice |-> u, quantity |-> q,
     lineTotal |-> lt]
BodyWithTotals(c, cu, its, sub, tx, tot) ==
    [t |-> "object", cartId |-> c, customerId |-> cu, items |-> its,
     subtotal |-> sub, tax |-> tx, total |-> tot]

\* the strings that UUID_RE matches, and one that it does not
UUIDs == {"c1", "c2"}
NotUUID == "cart-1"

UUID_RE(s) == s \in UUIDs

(***************************************************************************)
(* Response helpers                                                        *)
(***************************************************************************)
ok(body) == [statusCode |-> 200, body |-> body]

\* a rejection that is answered with 422 Unprocessable Entity
validationError_422(message) ==
    [statusCode |-> 422, body |-> [error |-> "VALIDATION_ERROR", message |-> message]]

validationError(message) ==
    [statusCode |-> 400, body |-> [error |-> "VALIDATION_ERROR", message |-> message]]

\* a 500 response that passes the text of the error on to the caller
internalError_Leaky ==
    [statusCode |-> 500,
     body |-> [error |-> "INTERNAL_ERROR", message |-> "ConditionalCheckFailedException"]]

internalError ==
    [statusCode |-> 500,
     body |-> [error |-> "INTERNAL_ERROR", message |-> "An unexpected error occurred"]]

(***************************************************************************)
(* Validation                                                              *)
(***************************************************************************)
IsObject(v) == v.t = "object"
IsNonEmptyString(v) == v.t = "string" /\ v.s # ""
NumberIsInteger(v) == v.t = "integer"

\* item checks that accept a unitPrice of 0
itemError_ZeroPrice(i) ==
    IF ~(i.t = "object") THEN "Each item must be an object"
    ELSE IF ~(i.productId.t = "string" /\ i.productId.s # "")
         THEN "Each item must have a productId"
    ELSE IF ~(i.name.t = "string" /\ i.name.s # "") THEN "Each item must have a name"
    ELSE IF ~(i.unitPrice.t = "integer") \/ i.unitPrice.n < 0
         THEN "unitPrice must be a positive integer (cents)"
    ELSE IF ~(i.quantity.t = "integer") \/ i.quantity.n < 1
         THEN "quantity must be an integer >= 1"
    ELSE ""

\* the message of the first rule that item i breaks, "" if it breaks none
itemError(i) ==
    IF ~IsObject(i) THEN "Each item must be an object"
    ELSE IF ~IsNonEmptyString(i.productId) THEN "Each item must have a productId"
    ELSE IF ~IsNonEmptyString(i.name) THEN "Each item must have a name"
    ELSE IF ~NumberIsInteger(i.unitPrice) \/ i.unitPrice.n <= 0
         THEN "unitPrice must be a positive integer (cents)"
    ELSE IF ~NumberIsInteger(i.quantity) \/ i.quantity.n < 1
         THEN "quantity must be an integer >= 1"
    ELSE ""

\* the for loop of validateRequest: the error of the first offending item
RECURSIVE itemsError(_)
itemsError(its) ==
    IF its = <<>> THEN ""
    ELSE IF itemError(Head(its)) # "" THEN itemError(Head(its))
    ELSE itemsError(Tail(its))

\* raw['items'] as CheckoutItem[]: the JavaScript values of a checked item,
\* with every property the caller sent
CheckoutItem(i) ==
    [f \in DOMAIN i \ {"t"} |-> IF i[f].t = "string" THEN i[f].s ELSE i[f].n]

validateRequest(body) ==
    IF ~IsObject(body)
    THEN [ok |-> FALSE, message |-> "Request body must be a JSON object"]
    ELSE IF ~IsNonEmptyString(body.cartId)
    THEN [ok |-> FALSE, message |-> "Missing or invalid cartId"]
    ELSE IF ~UUID_RE(body.cartId.s)
    THEN [ok |-> FALSE, message |-> "cartId must be a valid UUID"]
    ELSE IF ~IsNonEmptyString(body.customerId)
    THEN [ok |-> FALSE, message |-> "Missing or invalid customerId"]
    ELSE IF body.items.t # "array" \/ Len(body.items.v) = 0
    THEN [ok |-> FALSE, message |-> "Cart is empty"]
    ELSE IF itemsError(body.items.v) # ""
    THEN [ok |-> FALSE, message |-> itemsError(body.items.v)]
    ELSE [ok |-> TRUE,
          value |-> [cartId |-> body.cartId.s,
                     customerId |-> body.customerId.s,
                     items |-> [k \in 1..Len(body.items.v) |-> CheckoutItem(body.items.v[k])]]]

(***************************************************************************)
(* Pricing                                                                 *)
(***************************************************************************)
\* { lineTotal: ..., ...item }: a lineTotal sent by the caller wins
OrderItem_CallerTotal(item) ==
    [f \in DOMAIN item \cup {"lineTotal"} |->
        IF f \in DOMAIN item THEN item[f] ELSE item.unitPrice * item.quantity]

\* { ...item, lineTotal: item.unitPrice * item.quantity }
OrderItem(item) ==
    [f \in DOMAIN item \cup {"lineTotal"} |->
        IF f = "lineTotal" THEN item.unitPrice * item.quantity ELSE item[f]]

\* orderItems.reduce((sum, item) => sum + item.lineTotal, 0)
RECURSIVE SumLineTotals(_)
SumLineTotals(orderItems) ==
    IF orderItems = <<>> THEN 0
    ELSE SumLineTotals(SubSeq(orderItems, 1, Len(orderItems) - 1))
         + orderItems[Len(orderItems)].lineTotal

\* a tax that is rounded to the nearest cent
Tax_Rounded(subtotal) == (subtotal * 8 + 50) \div 100

\* Math.floor(subtotal * 0.08).  The double 0.08 lies above 8/100 by less
\* than 2^-58, and the fraction of subtotal * 8 / 100 is a multiple of 1/25,
\* so for every subtotal below 2^53 the rounded product has the same floor
\* as the exact quotient.
Tax(subtotal) == (subtotal * 8) \div 100

calculatePricing(items) ==
    LET orderItems == [k \in 1..Len(items) |-> OrderItem(items[k])]
        subtotal == SumLineTotals(orderItems)
        tax == Tax(subtotal)
    IN [items |-> orderItems, subtotal |-> subtotal, tax |-> tax, total |-> subtotal + tax]

(***************************************************************************)
(* The requests of a run                                                   *)
(***************************************************************************)
ItemsA == Arr(<<JItem(Str("prod-1"), Str("T-Shirt"), Num(2000), Num(2)),
                JItem(Str("prod-2"), Str("Mug"), Num(1500), Num(1))>>)
\* a cart whose sender claims a lineTotal of 1 for an item of 999
ItemsB == Arr(<<JItemWithTotal(Str("prod-3"), Str("Cap"), Num(999), Num(1), Num(1))>>)

ValidBodies ==
    {Body(Str("c1"), Str("customer-1"), ItemsA),
     BodyWithTotals(Str("c1"), Str("customer-1"), ItemsB, Num(1), Num(0), Num(1)),
     Body(Str("c2"), Str("customer-2"), ItemsA)}

InvalidBodies ==
    {JNull,
     Body(Undef, Str("customer-1"), ItemsA),
     Body(Str(NotUUID), Str("customer-1"), ItemsA),
     Body(Str("c1"), Undef, ItemsA),
     Body(Str("c1"), Str("customer-1"), Arr(<<>>)),
     Body(Str("c1"), Str("customer-1"),
          Arr(<<JItem(Str("prod-1"), Str("T-Shirt"), Num(0), Num(2))>>)),
     Body(Str("c1"), Str("customer-1"),
          Arr(<<JItem(Str("prod-1"), Str("T-Shirt"), Num(2000), Num(0))>>))}

\* event.body: a text that JSON.parse rejects, or the text of a JSON value
Unparsable == [parses |-> FALSE, value |-> JNull]
Json(v) == [parses |-> TRUE, value |-> v]
Events == {Unparsable} \cup {Json(v) : v \in ValidBodies \cup InvalidBodies}

\* the cartId a request carries, "" when it carries none
CartIdOf(ev) ==
    IF ev.parses /\ IsObject(ev.value) /\ ev.value.cartId.t = "string"
    THEN ev.value.cartId.s ELSE ""

IsValid(ev) == ev.parses /\ validateRequest(ev.value).ok

(***************************************************************************)
(* State                                                                   *)
(***************************************************************************)
VARIABLES
    store,       \* the orders table: a set of Order items, keyed by cartId
    everStored,  \* every item a PutCommand has written so far
    clock,       \* the time that new Date() gave when it was last read
    nextId,      \* the number of randomUUID() calls so far
    nfaults,     \* failed or stale external calls so far
    pc,          \* pc[r]: the await the handler of request r is suspended at
    event,       \* event[r]: the API Gateway event of request r
    request,     \* request[r]: the CheckoutRequest that validation gave r
    order,       \* order[r]: the candidate Order built by request r
    result,      \* result[r]: what createOrder gave request r
    response,    \* response[r]: the APIGatewayProxyResult of request r
    logs,        \* logs[r]: the entries request r wrote with log()
    calls,       \* calls[r]: how often r called each collaborator
    captures,    \* the capturePayment calls made so far
    faults,      \* faults[r]: the failures injected into the calls of r
    onRecord,    \* onRecord[r]: an order for r's cartId was stored when r began
    arg,         \* the argument of a function that is applied on its own
    ret          \* what that function returned

vars == <<store, everStored, clock, nextId, nfaults, pc, event, request, order,
          result, response, logs, calls, captures, faults, onRecord, arg, ret>>

Null == [null |-> TRUE]
NoEvent == [parses |-> FALSE, value |-> Undef]
NoResult == [state |-> "none", created |-> FALSE, order |-> Null]
NoCalls == [getOrderByCartId |-> 0, createOrder |-> 0, capturePayment |-> 0]

\* no request has arrived and the table is empty
Idle ==
    /\ store = {}
    /\ everStored = {}
    /\ clock = 0
    /\ nextId = 0
    /\ nfaults = 0
    /\ pc = [r \in Reqs |-> "idle"]
    /\ event = [r \in Reqs |-> NoEvent]
    /\ request = [r \in Reqs |-> Null]
    /\ order = [r \in Reqs |-> Null]
    /\ result = [r \in Reqs |-> NoResult]
    /\ response = [r \in Reqs |-> Null]
    /\ logs = [r \in Reqs |-> <<>>]
    /\ calls = [r \in Reqs |-> NoCalls]
    /\ captures = {}
    /\ faults = [r \in Reqs |-> {}]
    /\ onRecord = [r \in Reqs |-> FALSE]

Init ==
    /\ Idle
    /\ arg = Null
    /\ ret = Null

(***************************************************************************)
(* Structured logging: the fields of a LogEntry that identify the request  *)
(* and the order; "" and 0 stand for a field that is absent.               *)
(***************************************************************************)
LogEntry(level, action, cartId, orderId) ==
    [level |-> level, action |-> action, cartId |-> cartId, orderId |-> orderId]

(***************************************************************************)
(* Order repository                                                        *)
(***************************************************************************)
\* a GetCommand that answers with an item of the table whatever its key
Item_AnyKey(table, cartId) ==
    IF table # {} THEN CHOOSE o \in table : TRUE ELSE Null

\* result.Item of a GetCommand with Key {cartId}
Item(table, cartId) ==
    IF \E o \in table : o.cartId = cartId
    THEN CHOOSE o \in table : o.cartId = cartId
    ELSE Null

\* what a GetCommand can do: answer with the item, fail, or (being an
\* eventually consistent read) answer before it sees a stored item
GetOutcomes == {"ok", "throw", "miss"}
\* what a PutCommand or a payment capture can do beside its regular outcome
CallOutcomes == {"ok", "throw"}

getOrderByCartId(table, cartId, outcome) ==
    IF outcome = "miss" THEN Null ELSE Item(table, cartId)

\* a PutCommand whose condition is attribute_exists(cartId)
ConditionExpression_Exists(table, item) == \E o \in table : o.cartId = item.cartId

\* a PutCommand sent without its condition
ConditionExpression_Unconditional(table, item) == TRUE

\* ConditionExpression: 'attribute_not_exists(cartId)'
ConditionExpression(table, item) == ~\E o \in table : o.cartId = item.cartId

\* a PutCommand that was accepted: the item replaces any item with its key
PutItem(table, item) == {o \in table : o.cartId # item.cartId} \cup {item}

(***************************************************************************)
(* Handler                                                                 *)
(***************************************************************************)
\* a failure is injected only while the budget lasts
MayFail(outcome) == outcome = "ok" \/ nfaults < MaxFaults

Inject(r, outcome, kind) ==
    /\ nfaults' = IF outcome = "ok" THEN nfaults ELSE nfaults + 1
    /\ faults' = IF outcome = "ok" THEN faults
                 ELSE [faults EXCEPT ![r] = @ \cup {kind}]

\* the request returns resp after logging entries
Return(r, resp, entries) ==
    /\ pc' = [pc EXCEPT ![r] = "done"]
    /\ response' = [response EXCEPT ![r] = resp]
    /\ logs' = [logs EXCEPT ![r] = @ \o entries]

\* a catch block that answers 500 without logging
Catch_Silent(r, cartId) == Return(r, internalError, <<>>)

\* catch (err): log checkout.error (with cartId, without orderId), answer 500
Catch(r, cartId) ==
    Return(r, internalError, <<LogEntry("error", "checkout.error", cartId, 0)>>)

\* a handler that skips the early return of the probe
existingFound_Never(existing) == FALSE

\* if (existing) of the idempotency probe
existingFound(existing) == existing # Null

\* a handler that captures whatever createOrder returned
isDuplicate_Never(res) == FALSE

\* if (!result.created) after createOrder
isDuplicate(res) == ~res.created

\* the Order the handler builds from the validated request and its pricing
Candidate(req, orderId, createdAt) ==
    LET pricing == calculatePricing(req.items)
    IN [orderId |-> orderId,
        cartId |-> req.cartId,
        customerId |-> req.customerId,
        items |-> pricing.items,
        subtotal |-> pricing.subtotal,
        tax |-> pricing.tax,
        total |-> pricing.total,
        status |-> "CONFIRMED",
        createdAt |-> createdAt]

\* const request = validation.value
Req(r) == request[r]

\* a request arrives: parse, validate, log checkout.start, send the probe
Start(r, ev) ==
    /\ pc[r] = "idle"
    /\ \A q \in 1..(r - 1) : pc[q] # "idle"   \* requests are numbered as they arrive
    /\ event' = [event EXCEPT ![r] = ev]
    /\ IF ~ev.parses
       THEN /\ Return(r, validationError("Invalid JSON body"), <<>>)
            /\ UNCHANGED <<request, calls, onRecord>>
       ELSE LET validation == validateRequest(ev.value) IN
            IF ~validation.ok
            THEN /\ Return(r, validationError(validation.message), <<>>)
                 /\ UNCHANGED <<request, calls, onRecord>>
            ELSE /\ request' = [request EXCEPT ![r] = validation.value]
                 /\ pc' = [pc EXCEPT ![r] = "probe"]
                 /\ logs' = [logs EXCEPT ![r] =
                       <<LogEntry("info", "checkout.start", validation.value.cartId, 0)>>]
                 /\ calls' = [calls EXCEPT ![r].getOrderByCartId = @ + 1]
                 /\ onRecord' = [onRecord EXCEPT ![r] =
                       Item(store, validation.value.cartId) # Null]
                 /\ UNCHANGED response
    /\ UNCHANGED <<store, everStored, clock, nextId, nfaults, order, result,
                   captures, faults, arg, ret>>

\* new Date(): the clock does not run backwards; it shows the time of the
\* previous reading or a later one
Times == {clock, clock + 1}

\* the idempotency probe resolves; on no order, build the candidate and
\* send the conditional write
Probe(r, outcome) ==
    /\ pc[r] = "probe"
    /\ MayFail(outcome)
    /\ outcome = "miss" => Item(store, Req(r).cartId) # Null
    /\ Inject(r, outcome, "probe." \o outcome)
    /\ LET req == Req(r)
           existing == getOrderByCartId(store, req.cartId, outcome)
       IN IF outcome = "throw"
          THEN /\ Catch(r, req.cartId)
               /\ UNCHANGED <<order, nextId, clock, calls>>
          ELSE IF existingFound(existing)
          THEN /\ Return(r, ok(existing),
                     <<LogEntry("info", "checkout.duplicate", req.cartId, existing.orderId)>>)
               /\ UNCHANGED <<order, nextId, clock, calls>>
          ELSE /\ \E now \in Times :
                     /\ order' = [order EXCEPT ![r] = Candidate(req, nextId + 1, now)]
                     /\ clock' = now
               /\ nextId' = nextId + 1
               /\ calls' = [calls EXCEPT ![r].createOrder = @ + 1]
               /\ pc' = [pc EXCEPT ![r] = "persist"]
               /\ UNCHANGED <<response, logs>>
    /\ UNCHANGED <<store, everStored, event, request, result, captures, onRecord, arg, ret>>

\* the handler after createOrder returned res
AfterCreateOrder(r, res) ==
    /\ result' = [result EXCEPT ![r] = res]
    /\ IF isDuplicate(res)
       THEN Return(r, ok(res.order),
                <<LogEntry("info", "checkout.duplicate", order[r].cartId, res.order.orderId)>>)
       ELSE /\ pc' = [pc EXCEPT ![r] = "capture"]
            /\ UNCHANGED <<response, logs>>

\* the handler after createOrder threw
AfterCreateOrderThrew(r) ==
    /\ result' = [result EXCEPT ![r] = [state |-> "threw", created |-> FALSE, order |-> Null]]
    /\ Catch(r, order[r].cartId)

Returned(created, o) == [state |-> "returned", created |-> created, order |-> o]

\* the PutCommand of createOrder resolves
Persist(r, outcome) ==
    /\ pc[r] = "persist"
    /\ MayFail(outcome)
    /\ Inject(r, outcome, "put." \o outcome)
    /\ IF outcome = "throw"
       THEN /\ AfterCreateOrderThrew(r)
            /\ UNCHANGED <<store, everStored, calls>>
       ELSE IF ConditionExpression(store, order[r])
       THEN /\ store' = PutItem(store, order[r])
            /\ everStored' = everStored \cup {order[r]}
            /\ AfterCreateOrder(r, Returned(TRUE, order[r]))
            /\ UNCHANGED calls
       ELSE \* ConditionalCheckFailedException: createOrder reads the item
            /\ pc' = [pc EXCEPT ![r] = "reread"]
            /\ calls' = [calls EXCEPT ![r].getOrderByCartId = @ + 1]
            /\ UNCHANGED <<store, everStored, result, response, logs>>
    /\ UNCHANGED <<clock, nextId, event, request, order, captures, onRecord, arg, ret>>

Threw == [state |-> "threw", created |-> FALSE, order |-> Null]

\* a createOrder that takes a record it cannot find for its own write
afterConflict_AssumeWritten(o, existing) ==
    IF existing = Null THEN Returned(TRUE, o) ELSE Returned(FALSE, existing)

\* createOrder after the read that follows a ConditionalCheckFailedException:
\* if (!existing) throw ...; return { created: false, order: existing }
afterConflict(o, existing) ==
    IF existing = Null THEN Threw ELSE Returned(FALSE, existing)

\* the read after a failed condition resolves
Reread(r, outcome) ==
    /\ pc[r] = "reread"
    /\ MayFail(outcome)
    /\ outcome = "miss" => Item(store, order[r].cartId) # Null
    /\ Inject(r, outcome, "reread." \o outcome)
    /\ LET existing == getOrderByCartId(store, order[r].cartId, outcome)
           res == IF outcome = "throw" THEN Threw ELSE afterConflict(order[r], existing)
       IN IF res.state = "threw"
          THEN AfterCreateOrderThrew(r)
          ELSE AfterCreateOrder(r, res)
    /\ UNCHANGED <<store, everStored, clock, nextId, event, request, order, calls,
                   captures, onRecord, arg, ret>>

\* a catch block that deletes the order whose payment failed
onCaptureFailure_Rollback(table, o) == table \ {o}

\* catch (err) after a failed capture: the handler sends no command to the
\* table, the order it wrote stays
onCaptureFailure(table, o) == table

\* capturePayment(order.orderId, order.total) is called and resolves
Capture(r, outcome) ==
    /\ pc[r] = "capture"
    /\ MayFail(outcome)
    /\ Inject(r, outcome, "capture." \o outcome)
    /\ calls' = [calls EXCEPT ![r].capturePayment = @ + 1]
    /\ captures' = captures \cup
          {[req |-> r, cartId |-> order[r].cartId, orderId |-> order[r].orderId,
            total |-> order[r].total, outcome |-> outcome]}
    /\ LET payment == LogEntry("info", "payment.capture", "", order[r].orderId)
       IN IF outcome = "throw"
          THEN Return(r, internalError,
                   <<payment, LogEntry("error", "checkout.error", order[r].cartId, 0)>>)
          ELSE Return(r, ok(order[r]),
                   <<payment,
                     LogEntry("info", "checkout.complete", order[r].cartId, order[r].orderId)>>)
    /\ store' = IF outcome = "throw" THEN onCaptureFailure(store, order[r]) ELSE store
    /\ UNCHANGED <<everStored, clock, nextId, event, request, order, result, onRecord, arg, ret>>

Next ==
    \/ \E r \in Reqs, ev \in Events : Start(r, ev)
    \/ \E r \in Reqs, outcome \in GetOutcomes : Probe(r, outcome)
    \/ \E r \in Reqs, outcome \in CallOutcomes : Persist(r, outcome)
    \/ \E r \in Reqs, outcome \in GetOutcomes : Reread(r, outcome)
    \/ \E r \in Reqs, outcome \in CallOutcomes : Capture(r, outcome)

Spec == Init /\ [][Next]_vars

(***************************************************************************)
(* The handler when the calls it awaits are answered: while a GetCommand,  *)
(* a PutCommand or a payment capture is pending, one of the pending calls  *)
(* eventually resolves or rejects.  No request is bound to arrive.         *)
(***************************************************************************)
Resolve(r) ==
    \/ \E outcome \in GetOutcomes : Probe(r, outcome)
    \/ \E outcome \in CallOutcomes : Persist(r, outcome)
    \/ \E outcome \in GetOutcomes : Reread(r, outcome)
    \/ \E outcome \in CallOutcomes : Capture(r, outcome)

Settle == \E r \in Reqs : Resolve(r)

LiveSpec == Spec /\ WF_vars(Settle)

(***************************************************************************)
(* The handler applied to one event.body, sent once or again: bodies of    *)
(* every shape that validateRequest tells apart, with items that break at  *)
(* most one rule each.                                                     *)
(***************************************************************************)
\* an item that keeps every rule at its limit: unitPrice 1, quantity 1
GoodItem == JItem(Str("prod-1"), Str("T-Shirt"), Num(1), Num(1))

ItemValues ==
    {GoodItem, JNull, Arr(<<>>), Str("prod-1")}
    \cup {JItem(p, Str("T-Shirt"), Num(1), Num(1)) : p \in {Str(""), Undef}}
    \cup {JItem(Str("prod-1"), nm, Num(1), Num(1)) : nm \in {Str(""), Undef}}
    \cup {JItem(Str("prod-1"), Str("T-Shirt"), u, Num(1)) :
             u \in {Num(0), Num(0 - 1), Frac(1), Undef}}
    \cup {JItem(Str("prod-1"), Str("T-Shirt"), Num(1), q) :
             q \in {Num(0), Frac(1), Undef}}

ItemsValues ==
    {Undef, JNull, Str("prod-1")}
    \cup {Arr(its) : its \in UNION {[1..n -> ItemValues] : n \in 0..MaxItems}}

CartIdValues == {Str("c1"), Str(""), Str(NotUUID), Num(1), Undef}
CustomerIdValues == {Str("customer-1"), Str(""), Undef}

BodyValues ==
    {JNull, Arr(<<>>), Str("c1"), Num(1)}
    \cup {Body(c, cu, its) :
             c \in CartIdValues, cu \in CustomerIdValues, its \in ItemsValues}

BodyEvents == {Unparsable} \cup {Json(v) : v \in BodyValues}

InitValidation ==
    /\ Idle
    /\ arg \in BodyEvents
    /\ ret = Null

\* a request with the body arrives
Receive == \E r \in Reqs : Start(r, arg)

NextValidation == Receive \/ Settle

SpecValidation == InitValidation /\ [][NextValidation]_vars

(***************************************************************************)
(* calculatePricing applied on its own to the item lists that pass         *)
(* validation                                                              *)
(***************************************************************************)
Prices == {1, 12, 13, 999, 1500, 2000}
Quantities == {1, 2, 3}
PricedItems ==
    {[productId |-> "prod-1", name |-> "T-Shirt", unitPrice |-> u, quantity |-> q] :
        u \in Prices, q \in Quantities}
ItemLists == UNION {[1..n -> PricedItems] : n \in 1..MaxItems}

InitPricing ==
    /\ Idle
    /\ arg \in ItemLists
    /\ ret = Null

Price ==
    /\ ret = Null
    /\ ret' = calculatePricing(arg)
    /\ UNCHANGED <<store, everStored, clock, nextId, nfaults, pc, event, request, order,
                   result, response, logs, calls, captures, faults, onRecord, arg>>

NextPricing == Price

SpecPricing == InitPricing /\ [][NextPricing]_vars

(***************************************************************************)
(* Vocabulary of the properties                                            *)
(***************************************************************************)
Carts == UUIDs
Cart(r) == CartIdOf(event[r])
Done(r) == pc[r] = "done"
Done200(r) == Done(r) /\ response[r].statusCode = 200
RecordsOf(table, c) == {o \in table : o.cartId = c}
CapturesOf(c) == {k \in captures : k.cartId = c}
\* the requests that called createOrder with a candidate for cart c
Callers(c) == {r \in Reqs : calls[r].createOrder > 0 /\ order[r].cartId = c}
CreatedBy(r) == result[r].state = "returned" /\ result[r].created
LostTo(r, w) ==
    /\ result[r].state = "returned" /\ ~result[r].created
    /\ CreatedBy(w) /\ result[r].order = order[w]
\* the requests of the validation failures the properties speak of
InvalidEvents == {Unparsable} \cup {Json(v) : v \in InvalidBodies}
\* the failures of the store (a payment failure is not one of them)
StoreFaults == {"probe.throw", "probe.miss", "put.throw", "reread.throw", "reread.miss"}
StoreAnswered(r) == faults[r] \cap StoreFaults = {}

(***************************************************************************)
(* C1: in every reachable state the orders table holds at most one Order   *)
(* per cartId, and no second Order was ever written for a cartId, whatever *)
(* the interleaving of the requests and whatever items they carry.         *)
(***************************************************************************)
C1_OneOrderPerCart ==
    \A c \in Carts :
        /\ Cardinality(RecordsOf(store, c)) <= 1
        /\ Cardinality(RecordsOf(everStored, c)) <= 1

\* two requests for one cart both went as far as createOrder, and both ended
C1_Witness ==
    \E r, q \in Reqs :
        /\ r # q /\ Cart(r) = Cart(q)
        /\ calls[r].createOrder = 1 /\ calls[q].createOrder = 1
        /\ Done(r) /\ Done(q)
        /\ Cardinality(RecordsOf(store, Cart(r))) = 1

(***************************************************************************)
(* C2: an Order that is in the table stays in it, with every field as it   *)
(* was written: no step of any request changes or removes it.              *)
(***************************************************************************)
C2_OrdersImmutable == [][\A o \in store : o \in store']_vars

\* an order is stored, and a request with other items for the same cart has
\* since tried to write its own candidate and has ended
C2_Witness ==
    \E w, q \in Reqs :
        /\ CreatedBy(w) /\ order[w] \in store
        /\ q # w /\ Cart(q) = Cart(w) /\ event[q] # event[w]
        /\ calls[q].createOrder = 1 /\ Done(q)

(***************************************************************************)
(* C3: of the createOrder calls for one cartId at most one returns         *)
(* created = true; every call that returns created = false returns the     *)
(* record written by the call that returned true; and once every call has  *)
(* returned, exactly one has returned created = true.                      *)
(***************************************************************************)
C3_ExactlyOneCreated ==
    \A c \in Carts :
        LET winners == {r \in Callers(c) : CreatedBy(r)} IN
        /\ Cardinality(winners) <= 1
        /\ \A r \in Callers(c) :
              (result[r].state = "returned" /\ ~result[r].created)
                  => \E w \in winners : w # r /\ LostTo(r, w) /\ order[w] \in store
        /\ (Callers(c) # {} /\ \A r \in Callers(c) : result[r].state = "returned")
              => Cardinality(winners) = 1

\* two concurrent calls for one cart: both probes found nothing, one call
\* returned created = true and the other created = false
C3_Witness ==
    \E w, r \in Reqs :
        /\ w # r /\ ~onRecord[w] /\ ~onRecord[r] /\ faults[w] = {} /\ faults[r] = {}
        /\ CreatedBy(w) /\ LostTo(r, w)

(***************************************************************************)
(* C4: per cartId payment capture is invoked at most once, and only by the *)
(* request whose createOrder returned created = true; a request that       *)
(* answers with a pre-existing order never invokes capture.                *)
(***************************************************************************)
C4_CaptureAtMostOnce ==
    /\ \A c \in Carts : Cardinality(CapturesOf(c)) <= 1
    /\ \A k \in captures : CreatedBy(k.req) /\ calls[k.req].capturePayment = 1
    /\ \A r \in Reqs : ~CreatedBy(r) => calls[r].capturePayment = 0

\* the creator captured, and a retry was answered with the existing order
C4_Witness ==
    \E w, r \in Reqs :
        /\ w # r /\ Cart(w) = Cart(r)
        /\ \E k \in captures : k.req = w
        /\ Done200(r) /\ ~CreatedBy(r) /\ response[r].body = order[w]

(***************************************************************************)
(* C5: once all valid requests for a cartId have ended, and the store      *)
(* answered at least one of them without failure, exactly one record has   *)
(* been written for the cartId and exactly one capture has been attempted, *)
(* by the request whose conditional write succeeded; every other request   *)
(* made no capture and, where it answered 200, answered with that record.  *)
(***************************************************************************)
Arrived(c) == {r \in Reqs : pc[r] # "idle" /\ Cart(r) = c /\ event[r] \notin InvalidEvents}

C5_OneRecordOneCapture ==
    \A c \in Carts :
        (/\ \A r \in Arrived(c) : Done(r)
         /\ \E r \in Arrived(c) : StoreAnswered(r))
        => /\ Cardinality(RecordsOf(everStored, c)) = 1
           /\ RecordsOf(store, c) = RecordsOf(everStored, c)
           /\ Cardinality(CapturesOf(c)) = 1
           /\ \E w \in Arrived(c) :
                 /\ CreatedBy(w) /\ RecordsOf(store, c) = {order[w]}
                 /\ \A k \in CapturesOf(c) : k.req = w
                 /\ \A r \in Arrived(c) \ {w} :
                       /\ calls[r].capturePayment = 0
                       /\ Done200(r) => response[r].body = order[w]

\* a race and its end: both requests for the cart are done, one created
C5_Witness ==
    \E c \in Carts :
        /\ Cardinality(Arrived(c)) = NumReqs
        /\ \A r \in Arrived(c) : Done200(r) /\ calls[r].createOrder = 1

(***************************************************************************)
(* C6: a request invokes payment capture only after its own createOrder    *)
(* call returned created = true, so that at every capture call an Order    *)
(* with the captured orderId is in the table.                              *)
(***************************************************************************)
C6_PersistBeforeCapture ==
    /\ \A k \in captures :
          /\ result[k.req].state = "returned" /\ result[k.req].created
          /\ \E o \in store : o.orderId = k.orderId /\ o.cartId = k.cartId
    /\ \A r \in Reqs :
          pc[r] = "capture" => (CreatedBy(r) /\ order[r] \in store)

\* a capture has been made while another request for the cart had lost the write
C6_Witness ==
    \E k \in captures : \E r \in Reqs :
        r # k.req /\ LostTo(r, k.req)
(***************************************************************************)
(* C7: every 200 response to a request for a cartId carries the one Order  *)
(* that is in the table for that cartId, built from the request that       *)
(* created it; so all 200 responses for a cartId are identical, whether    *)
(* they answer the creating request or a duplicate, and whatever items the *)
(* duplicate carried.                                                      *)
(***************************************************************************)
C7_SameOrderReturned ==
    \A r \in Reqs :
        Done200(r) =>
            /\ response[r].body \in RecordsOf(store, Cart(r))
            /\ \E w \in Reqs :
                  /\ CreatedBy(w) /\ Cart(w) = Cart(r)
                  /\ response[r].body =
                        Candidate(Req(w), order[w].orderId, order[w].createdAt)
            /\ \A q \in Reqs :
                  (Done200(q) /\ Cart(q) = Cart(r)) => response[q] = response[r]

\* the creating request and a later request with other items both got 200
C7_Witness ==
    \E w, q \in Reqs :
        /\ w # q /\ Cart(w) = Cart(q) /\ event[w] # event[q]
        /\ CreatedBy(w) /\ Done200(w) /\ Done200(q)
        /\ clock > order[w].createdAt /\ calls[q].createOrder = 1

(***************************************************************************)
(* C8: a valid request that begins when an Order for its cartId is already *)
(* in the table never invokes payment capture; when its probe reads the    *)
(* record it invokes no createOrder either and answers 200 with the record *)
(* unchanged.  This is also the retry that follows a creating request      *)
(* which never got from persistence to capture.                            *)
(***************************************************************************)
C8_DuplicateShortCircuits ==
    \A r \in Reqs :
        onRecord[r] =>
            /\ calls[r].capturePayment = 0
            /\ StoreAnswered(r) => calls[r].createOrder = 0
            /\ (Done(r) /\ StoreAnswered(r)) =>
                  /\ response[r].statusCode = 200
                  /\ {response[r].body} = RecordsOf(store, Cart(r))
                  /\ response[r].body \in everStored

\* a retry was answered while the creating request still stood between
\* persistence and capture
C8_Witness ==
    \E w, r \in Reqs :
        /\ pc[w] = "capture" /\ Cart(r) = Cart(w) /\ captures = {}
        /\ onRecord[r] /\ Done200(r) /\ response[r].body = order[w]

(***************************************************************************)
(* C9: a request that fails validation (unparsable or non-object body,     *)
(* missing or invalid cartId, missing customerId, empty items, unitPrice   *)
(* not above 0, quantity below 1) ends with a 400 VALIDATION_ERROR, calls  *)
(* neither getOrderByCartId nor createOrder nor capturePayment, and its    *)
(* step leaves the table and the captures as they were.                    *)
(***************************************************************************)
C9_Rejected(r) ==
    /\ Done(r)
    /\ response[r].statusCode = 400
    /\ response[r].body.error = "VALIDATION_ERROR"
    /\ calls[r] = NoCalls
    /\ order[r] = Null /\ logs[r] = <<>>

C9_ValidationNoSideEffects ==
    /\ [](\A r \in Reqs : (pc[r] # "idle" /\ event[r] \in InvalidEvents) => C9_Rejected(r))
    /\ [][\A r \in Reqs :
            (pc[r] = "idle" /\ pc'[r] # "idle" /\ event'[r] \in InvalidEvents)
                => (store' = store /\ everStored' = everStored /\ captures' = captures)]_vars

\* a request with a unitPrice of 0 was rejected while an order was stored
C9_Witness ==
    \E r \in Reqs :
        /\ Done(r) /\ event[r] \in InvalidEvents
        /\ response[r] = validationError("unitPrice must be a positive integer (cents)")
        /\ store # {}

CaptureFailed(r) == "capture.throw" \in faults[r]

C11_CaptureFailureKeepsOrder ==
    \A r \in Reqs :
        CaptureFailed(r) =>
            /\ Done(r)
            /\ response[r].statusCode = 500
            /\ response[r].body.error = "INTERNAL_ERROR"
            /\ CreatedBy(r)
            /\ RecordsOf(store, Cart(r)) = {result[r].order}
            /\ result[r].order = order[r]

\* a capture has failed and the request has answered
C11_Witness ==
    \E r \in Reqs :
        /\ CaptureFailed(r) /\ Done(r)
        /\ \E k \in captures : k.req = r /\ k.outcome = "throw"
(***************************************************************************)
(* C12 as stated: after a payment capture has failed for a cartId, the     *)
(* table holds no CONFIRMED Order of that cartId for which no capture has  *)
(* succeeded.                                                              *)
(***************************************************************************)
Succeeded(c) == \E k \in CapturesOf(c) : k.outcome = "ok"
Ghosts(c) == {o \in RecordsOf(store, c) : o.status = "CONFIRMED" /\ ~Succeeded(c)}

RECURSIVE SumOfProducts(_)
SumOfProducts(items) ==
    IF items = <<>> THEN 0
    ELSE Head(items).unitPrice * Head(items).quantity + SumOfProducts(Tail(items))

\* t is the floor of s * 8 / 100
IsFloorOfEightPercent(t, s) == t * 100 <= s * 8 /\ s * 8 < (t + 1) * 100

\* priced is item with a lineTotal of unitPrice * quantity and nothing else changed
IsPricedItem(priced, item) ==
    /\ DOMAIN priced = DOMAIN item \cup {"lineTotal"}
    /\ \A f \in DOMAIN item \ {"lineTotal"} : priced[f] = item[f]
    /\ priced.lineTotal = item.unitPrice * item.quantity

IsPricingOf(p, items) ==
    /\ Len(p.items) = Len(items)
    /\ \A k \in 1..Len(items) : IsPricedItem(p.items[k], items[k])
    /\ p.subtotal = SumOfProducts(items)
    /\ IsFloorOfEightPercent(p.tax, p.subtotal)
    /\ p.total = p.subtotal + p.tax
    /\ p.subtotal \in Nat /\ p.tax \in Nat /\ p.total \in Nat

IsExampleCart(items) ==
    /\ Len(items) = 2
    /\ items[1].unitPrice = 2000 /\ items[1].quantity = 2
    /\ items[2].unitPrice = 1500 /\ items[2].quantity = 1

SentItems(r) ==
    LET sent == event[r].value.items.v
    IN [k \in 1..Len(sent) |->
          [f \in DOMAIN sent[k] \ {"t"} |->
              IF sent[k][f].t = "string" THEN sent[k][f].s ELSE sent[k][f].n]]

RereadFoundNothing(r) == "reread.miss" \in faults[r]

C15_VanishedRecordIsFatal ==
    \A r \in Reqs :
        RereadFoundNothing(r) =>
            /\ Done(r)
            /\ response[r].statusCode = 500
            /\ response[r].body.error = "INTERNAL_ERROR"
            /\ result[r].state = "threw"
            /\ calls[r] = [getOrderByCartId |-> 2, createOrder |-> 1, capturePayment |-> 0]
            /\ order[r] \notin everStored
            /\ \A k \in captures : k.req # r

\* a request whose probe found nothing lost the write to another request
\* and then could not read the winner's record
C15_Witness ==
    \E r, w \in Reqs :
        /\ RereadFoundNothing(r) /\ ~onRecord[r] /\ "probe.miss" \notin faults[r]
        /\ CreatedBy(w) /\ order[w] \in store /\ Cart(w) = Cart(r)
        /\ response[r] = internalError
(***************************************************************************)
(* C16: every failure raised after validation has passed (a store failure  *)
(* in the probe, in the conditional write or in the read after a conflict, *)
(* a record not found after a conflict, a payment failure) ends the        *)
(* request with status 500 and the one fixed body {error: INTERNAL_ERROR,  *)
(* message: "An unexpected error occurred"}, never with 200 or 400; and a  *)
(* failure in the probe or the write leaves the table and the captures     *)
(* as they were, with no capture by that request.                          *)
(***************************************************************************)
EarlyFailures == {"probe.throw", "put.throw", "reread.throw", "reread.miss"}
Failures == EarlyFailures \cup {"capture.throw"}
GenericFailure ==
    [statusCode |-> 500,
     body |-> [error |-> "INTERNAL_ERROR", message |-> "An unexpected error occurred"]]

C16_FailureAnswered(r) ==
    /\ faults[r] \cap Failures # {} => (Done(r) /\ response[r] = GenericFailure)
    /\ (Done(r) /\ response[r].statusCode = 500) => response[r] = GenericFailure
    /\ faults[r] \cap EarlyFailures # {} =>
          (calls[r].capturePayment = 0 /\ order[r] \notin everStored)

C16_FailuresAreGeneric ==
    /\ [](\A r \in Reqs : C16_FailureAnswered(r))
    /\ [][\A r \in Reqs :
            (faults'[r] \cap EarlyFailures # faults[r] \cap EarlyFailures)
                => (store' = store /\ everStored' = everStored /\ captures' = captures)]_vars

\* a request that failed in the probe and one that failed in the capture
\* got the same response
C16_Witness ==
    \E r, q \in Reqs :
        /\ "probe.throw" \in faults[r] /\ "capture.throw" \in faults[q]
        /\ Done(r) /\ Done(q) /\ response[r] = response[q]
(***************************************************************************)
(* C17: provided every call a request awaits eventually returns or fails,  *)
(* there comes a moment from which every request that has arrived has      *)
(* ended; a request ends in exactly one of the terminal states 400         *)
(* (validation failed), 200 (completed with an order) or 500 (internal     *)
(* failure) and never leaves it; on its way it makes at most one probe,    *)
(* one conditional write, one read after a conflict and one capture.       *)
(***************************************************************************)
C17_Bounded(r) ==
    /\ calls[r].getOrderByCartId <= 2
    /\ calls[r].createOrder <= 1
    /\ calls[r].capturePayment <= 1
    /\ calls[r].getOrderByCartId = 2 => calls[r].createOrder = 1
    /\ Done(r) => response[r].statusCode \in {400, 200, 500}
    /\ ~Done(r) => response[r] = Null

C17_Terminates ==
    /\ [](\A r \in Reqs : C17_Bounded(r))
    /\ [][\A r \in Reqs : /\ Done(r) => (pc'[r] = "done" /\ response'[r] = response[r])
                          /\ pc[r] # "idle" => pc'[r] # "idle"]_vars
    /\ <>[](\A r \in Reqs : pc[r] = "idle" \/ Done(r))

\* a request ended after the longest path: probe, write, read after conflict
C17_Witness ==
    \E r \in Reqs :
        /\ Done(r) /\ calls[r].getOrderByCartId = 2 /\ calls[r].createOrder = 1
        /\ \E q \in Reqs : q # r /\ Done(q) /\ calls[q].capturePayment = 1
(***************************************************************************)
(* C18: when a request for a cartId has failed (400 or 500) without an     *)
(* order for that cartId being created, a valid request with the same      *)
(* cartId that arrived after it and met no failure of the store or of the  *)
(* payment creates the order normally: the table holds exactly one record  *)
(* for the cartId, the one it wrote; payment was captured once, for that   *)
(* order; and it answers 200 with that order.                              *)
(***************************************************************************)
\* request r ended in a failure and created no order
FailedWithoutOrder(r) ==
    /\ Done(r) /\ response[r].statusCode \in {400, 500}
    /\ ~CreatedBy(r)

\* q is a working retry of the failed request r
RetryOf(q, r) ==
    /\ r < q /\ Cart(r) = Cart(q) /\ FailedWithoutOrder(r)
    /\ IsValid(event[q]) /\ Done(q) /\ faults[q] = {}
    /\ \A w \in Reqs \ {q} : Cart(w) = Cart(q) => ~CreatedBy(w)

C18_RetryCreatesNormally ==
    \A q, r \in Reqs :
        RetryOf(q, r) =>
            /\ CreatedBy(q)
            /\ RecordsOf(store, Cart(q)) = {order[q]}
            /\ RecordsOf(everStored, Cart(q)) = {order[q]}
            /\ calls[q].capturePayment = 1
            /\ \E k \in captures :
                  /\ CapturesOf(Cart(q)) = {k}
                  /\ k.req = q /\ k.orderId = order[q].orderId
                  /\ k.total = order[q].total /\ k.outcome = "ok"
            /\ response[q] = ok(order[q])

\* the first attempt got as far as its write, which the store failed; the
\* retry built its order afterwards
C18_Witness ==
    \E q, r \in Reqs :
        /\ RetryOf(q, r)
        /\ response[r].statusCode = 500 /\ "put.throw" \in faults[r]
        /\ order[q].orderId > order[r].orderId
        /\ Done200(q)
(***************************************************************************)
(* C19: every entry a request logs (checkout.start, checkout.duplicate,    *)
(* checkout.complete, checkout.error, payment.capture) carries the cartId  *)
(* of the request, and carries the orderId when the orderId is known as    *)
(* the entry is written: the orderId of the order that is returned or      *)
(* captured, and, for a checkout.error written after the request stored    *)
(* its order, the orderId of that order.                                   *)
(***************************************************************************)
\* the orderId request r knows when it writes entry e, 0 when it knows none
KnownOrderId(r, e) ==
    CASE e.action = "checkout.start" -> 0
      [] e.action \in {"checkout.complete", "payment.capture"} -> order[r].orderId
      [] e.action = "checkout.duplicate" -> response[r].body.orderId
      [] e.action = "checkout.error" -> IF CreatedBy(r) THEN order[r].orderId ELSE 0
      [] OTHER -> 0

C19_LogsCarryIds ==
    \A r \in Reqs :
        Done(r) =>
            \A k \in 1..Len(logs[r]) :
                /\ logs[r][k].cartId = Cart(r)
                /\ KnownOrderId(r, logs[r][k]) # 0 =>
                       logs[r][k].orderId = KnownOrderId(r, logs[r][k])
(***************************************************************************)
(* C20: when two requests with the same cartId and valid items are the     *)
(* only ones for that cartId and neither meets a failure of the store or   *)
(* of the payment, then however their steps interleave both answer 200     *)
(* with the same orderId and exactly one createOrder call returned         *)
(* created: true.  When both probes found nothing, so that both requests   *)
(* called createOrder, the other call returned created: false with the     *)
(* winner's record; that request answers with the winner's record, does    *)
(* not call capturePayment and logs checkout.duplicate.                    *)
(***************************************************************************)
\* r and q are the two calls for their cartId, both finished, both unharmed
ConcurrentPair(r, q) ==
    /\ r # q /\ Cart(r) = Cart(q)
    /\ IsValid(event[r]) /\ IsValid(event[q])
    /\ Done(r) /\ Done(q)
    /\ faults[r] = {} /\ faults[q] = {}
    /\ \A w \in Reqs \ {r, q} : pc[w] # "idle" => Cart(w) # Cart(r)

\* both probes were answered before either write: both called createOrder
BothWrote(r, q) == calls[r].createOrder = 1 /\ calls[q].createOrder = 1

C20_ConcurrentCallsAgree ==
    \A r, q \in Reqs :
        ConcurrentPair(r, q) =>
            /\ Done200(r) /\ Done200(q)
            /\ response[r].body.orderId = response[q].body.orderId
            /\ CreatedBy(r) # CreatedBy(q)
            /\ (BothWrote(r, q) /\ CreatedBy(r)) =>
                  /\ result[q] = Returned(FALSE, order[r])
                  /\ response[q] = ok(order[r])
                  /\ calls[q].capturePayment = 0
                  /\ \A k \in captures : k.req # q
                  /\ logs[q][Len(logs[q])] =
                        LogEntry("info", "checkout.duplicate", Cart(q), order[r].orderId)

\* the race: both requests sent their PutCommand and both have answered
C20_Witness ==
    \E r, q \in Reqs :
        /\ ConcurrentPair(r, q) /\ BothWrote(r, q)
        /\ CreatedBy(r) /\ calls[q].getOrderByCartId = 2
(***************************************************************************)
(* C21: validateRequest accepts a body if and only if the body is a JSON   *)
(* object (not null, not an array), its cartId is a non-empty UUID-shaped  *)
(* string, its customerId a non-empty string, its items a non-empty array, *)
(* and every item an object with a non-empty string productId and name, an *)
(* integer unitPrice > 0 and an integer quantity >= 1.  A body that does   *)
(* not parse is answered with 400 and reaches no collaborator; a request   *)
(* that keeps every rule is never answered with 400, and every other one   *)
(* is.                                                                     *)
(***************************************************************************)
\* the rules for one item, in the words of the rule table
ItemKeepsRules(i) ==
    /\ i.t = "object"
    /\ i.productId.t = "string" /\ i.productId.s # ""
    /\ i.name.t = "string" /\ i.name.s # ""
    /\ i.unitPrice.t = "integer" /\ i.unitPrice.n > 0
    /\ i.quantity.t = "integer" /\ i.quantity.n >= 1

\* the rules for a body, in the words of the rule table
KeepsRules(body) ==
    /\ body.t = "object"
    /\ body.cartId.t = "string" /\ body.cartId.s # "" /\ body.cartId.s \in UUIDs
    /\ body.customerId.t = "string" /\ body.customerId.s # ""
    /\ body.items.t = "array" /\ Len(body.items.v) >= 1
    /\ \A k \in 1..Len(body.items.v) : ItemKeepsRules(body.items.v[k])

C21_ValidationIffRules ==
    /\ arg.parses => (validateRequest(arg.value).ok <=> KeepsRules(arg.value))
    /\ \A r \in Reqs :
          /\ (Done(r) /\ ~arg.parses) =>
                /\ response[r] = validationError("Invalid JSON body")
                /\ calls[r] = NoCalls /\ logs[r] = <<>>
          /\ (Done(r) /\ arg.parses /\ KeepsRules(arg.value)) =>
                response[r].statusCode # 400
          /\ (pc[r] # "idle" /\ ~(arg.parses /\ KeepsRules(arg.value))) =>
                (Done(r) /\ response[r].statusCode = 400)

\* the loop reached the last item of a full cart and rejected it for its
\* quantity, all earlier items being in order
C21_Witness ==
    \E r \in Reqs :
        /\ Done(r) /\ arg.parses /\ arg.value.t = "object"
        /\ arg.value.cartId = Str("c1") /\ arg.value.customerId = Str("customer-1")
        /\ arg.value.items.t = "array" /\ Len(arg.value.items.v) = MaxItems
        /\ \A k \in 1..(MaxItems - 1) : ItemKeepsRules(arg.value.items.v[k])
        /\ arg.value.items.v[MaxItems] = JItem(Str("prod-1"), Str("T-Shirt"), Num(1), Num(0))
        /\ response[r] = validationError("quantity must be an integer >= 1")
(***************************************************************************)
(* C22: every call of capturePayment is made with the orderId and the      *)
(* total of the Order that the table holds for the cartId of the request   *)
(* at the moment of the call, and that Order is the one the request wrote; *)
(* no capture is ever made with the orderId or the total of a candidate    *)
(* that was not stored.                                                    *)
(***************************************************************************)
\* capture k is made for the record the table holds for its cartId
OnRecord(table, k) ==
    \E o \in table :
        /\ RecordsOf(table, k.cartId) = {o}
        /\ o.orderId = k.orderId /\ o.total = k.total
        /\ o = order[k.req]

C22_CaptureUsesPersistedOrder ==
    /\ [](\A k \in captures : OnRecord(everStored, k))
    /\ [][\A k \in captures' \ captures : OnRecord(store, k)]_vars

\* a capture was made for a cart for which another request had built a
\* candidate with another total, which was not stored
C22_Witness ==
    \E k \in captures, q \in Reqs :
        /\ q # k.req /\ Done(q) /\ order[q] # Null
        /\ order[q].cartId = k.cartId /\ order[q] \notin everStored
        /\ order[q].orderId # k.orderId /\ order[q].total # k.total
        /\ OnRecord(store, k)
(***************************************************************************)
(* C23: a request that passed validation logs checkout.start first and     *)
(* once, and when it has ended exactly one terminal entry, its last:       *)
(* checkout.duplicate when it answers 200 with an order it did not create, *)
(* checkout.complete when it answers 200 with the order it created,        *)
(* checkout.error when it answers 500; before it ends it has logged no     *)
(* terminal entry.  A request that failed validation logs nothing.         *)
(* checkout.complete is logged only after a capture that succeeded, and    *)
(* over all requests of a cartId at most one checkout.complete and at most *)
(* one payment.capture are logged.                                         *)
(***************************************************************************)
TerminalActions == {"checkout.duplicate", "checkout.complete", "checkout.error"}

\* the places of the log of r that hold an entry with one of the actions
Places(r, actions) == {k \in 1..Len(logs[r]) : logs[r][k].action \in actions}

\* the terminal action that matches the outcome of the finished request r
TerminalOf(r) ==
    IF response[r].statusCode = 500 THEN "checkout.error"
    ELSE IF CreatedBy(r) THEN "checkout.complete"
    ELSE "checkout.duplicate"

\* the logged entries with the action, over all requests of cart c
LoggedFor(c, action) ==
    {<<r, k>> \in Reqs \X (1..4) : Cart(r) = c /\ pc[r] # "idle" /\ k \in Places(r, {action})}

C23_OneStartOneTerminal ==
    /\ \A r \in Reqs :
          /\ (pc[r] # "idle" /\ ~IsValid(event[r])) => logs[r] = <<>>
          /\ (pc[r] # "idle" /\ IsValid(event[r])) =>
                /\ Len(logs[r]) <= 4
                /\ Places(r, {"checkout.start"}) = {1}
                /\ Places(r, TerminalActions) = IF Done(r) THEN {Len(logs[r])} ELSE {}
                /\ Done(r) =>
                      /\ response[r].statusCode \in {200, 500}
                      /\ logs[r][Len(logs[r])].action = TerminalOf(r)
                /\ \A k \in Places(r, {"checkout.complete"}) :
                      /\ logs[r][k - 1].action = "payment.capture"
                      /\ \E c \in captures : c.req = r /\ c.outcome = "ok"
    /\ \A c \in Carts :
          /\ Cardinality(LoggedFor(c, "checkout.complete")) <= 1
          /\ Cardinality(LoggedFor(c, "payment.capture")) <= 1

\* one cart, two outcomes: a request that created and completed, and a
\* request that found the order on record
C23_Witness ==
    \E r, q \in Reqs :
        /\ r # q /\ Cart(r) = Cart(q) /\ Done(r) /\ Done(q)
        /\ Len(logs[r]) = 3 /\ logs[r][3].action = "checkout.complete"
        /\ Len(logs[q]) = 2 /\ logs[q][2].action = "checkout.duplicate"
(***************************************************************************)
(* C24: a step of a request for cartId A leaves alone what belongs to any  *)
(* other cartId B: the record of B in the table, whether an order for B    *)
(* was ever written, the captures made for B, and everything the other     *)
(* requests hold; the record it is given by the table is keyed by A.  So a *)
(* request is answered as a duplicate only with an order that a request    *)
(* for its own cartId created, and a request that is alone with its cartId *)
(* and meets no failure creates its order, whatever requests for other     *)
(* cartIds run beside it.                                                  *)
(***************************************************************************)
\* what request q holds
Held(q) == <<pc[q], event[q], request[q], order[q], result[q], response[q], logs[q],
             calls[q], faults[q], onRecord[q]>>

\* a step of request r touches nothing of the other carts and requests
C24_Frame(r) ==
    LET a == CartIdOf(event'[r]) IN
    /\ \A b \in Carts \ {a} :
          /\ RecordsOf(store', b) = RecordsOf(store, b)
          /\ RecordsOf(everStored', b) = RecordsOf(everStored, b)
          /\ {k \in captures' : k.cartId = b} = CapturesOf(b)
    /\ \A q \in Reqs \ {r} : Held(q)' = Held(q)
    /\ result'[r].state = "returned" => result'[r].order.cartId = a
    /\ (response'[r] # Null /\ response'[r].statusCode = 200) =>
          response'[r].body.cartId = a

C24_OtherCartsUntouched ==
    /\ [][\A r \in Reqs : pc'[r] # pc[r] => C24_Frame(r)]_vars
    /\ [](\A r \in Reqs :
             /\ (Done200(r) /\ ~CreatedBy(r)) =>
                   \E w \in Reqs \ {r} :
                       Cart(w) = Cart(r) /\ CreatedBy(w) /\ response[r].body = order[w]
             /\ (/\ Done(r) /\ IsValid(event[r]) /\ faults[r] = {}
                 /\ \A w \in Reqs \ {r} : pc[w] # "idle" => Cart(w) # Cart(r)) =>
                   (CreatedBy(r) /\ response[r] = ok(order[r])))

\* two carts side by side: a request stored its order and waits for the
\* capture, while a request for another cart, which began later, has
\* created and completed its own
C24_Witness ==
    \E r, q \in Reqs :
        /\ Cart(r) # Cart(q) /\ IsValid(event[r]) /\ IsValid(event[q])
        /\ pc[r] = "capture" /\ order[r] \in store
        /\ Done200(q) /\ CreatedBy(q) /\ order[q] \in store
        /\ order[q].orderId > order[r].orderId
====
